---- MODULE Spec2Model ----
(***************************************************************************)
(* The ReAct task loop of src/services/TaskController.js together with the *)
(* three socket handlers of src/server.js that drive it (task:execute,     *)
(* task:confirm, task:cancel).                                             *)
(*                                                                         *)
(* JavaScript runs one callback at a time, so every action below is one    *)
(* synchronous run of code: from the arrival of an event, or from the      *)
(* resumption of an await, up to the next await or the return.  A call of  *)
(* executeComplexTask is a record of run[t]; its field pc names the await  *)
(* the call is suspended at.                                               *)
(***************************************************************************)
EXTENDS Naturals, Sequences, FiniteSets

VARIABLES
    activeTasks,  \* this.activeTasks: the Map sessionId -> taskState, as its set of entries
    run,          \* per call of executeComplexTask: the taskState object, the call's locals, what it emitted
    listeners,    \* the calls whose 'task:confirm' handler is attached to their socket
    timers,       \* the calls whose 30000ms confirmation timer is armed
    cancelled,    \* per socket: the payload of its latest 'task:cancelled' event
    services      \* this.browserAutomation and this.screenshotService: set or null

vars == <<activeTasks, run, listeners, timers, cancelled, services>>

----------------------------------------------------------------------------
(* Bounds of the model *)

\* taskState.maxSteps is 10 in the source (TaskController.js:77); the model
\* runs the same loop with a smaller limit.
maxSteps == 2

\* identities of the calls of executeComplexTask (the taskState objects)
Tasks == {1, 2}

\* session ids; a session has one socket
Sessions == {"s1", "s2"}

----------------------------------------------------------------------------
(* TaskState, ActionType, DANGEROUS_OPERATIONS *)

PENDING == "pending"
REASONING == "reasoning"
ACTING == "acting"
OBSERVING == "observing"
AWAITING_CONFIRMATION == "awaiting_confirmation"
COMPLETED == "completed"
FAILED == "failed"

TaskState == {PENDING, REASONING, ACTING, OBSERVING, AWAITING_CONFIRMATION, COMPLETED, FAILED}

ActionType == {"browser", "app", "system", "keyboard", "mouse", "wait"}

\* strings are sequences of characters, so that includes() is a substring test
DANGEROUS_OPERATIONS ==
    { <<"s","h","u","t","d","o","w","n">>, <<"r","e","s","t","a","r","t">>,
      <<"h","i","b","e","r","n","a","t","e">>, <<"s","l","e","e","p">>,
      <<"d","e","l","e","t","e">>, <<"r","e","m","o","v","e">>, <<"r","m">>, <<"d","e","l">>,
      <<"f","o","r","m","a","t">>, <<"r","e","g"," ","d","e","l","e","t","e">>,
      <<"r","e","g","e","d","i","t">>, <<"n","e","t","s","h">>,
      <<"f","i","r","e","w","a","l","l">> }

\* String.prototype.toLowerCase on the characters the model uses
LowerChar(c) ==
    CASE c = "S" -> "s" [] c = "H" -> "h" [] c = "U" -> "u" [] c = "T" -> "t"
      [] c = "D" -> "d" [] c = "O" -> "o" [] c = "W" -> "w" [] c = "N" -> "n"
      [] c = "R" -> "r" [] c = "M" -> "m" [] c = "I" -> "i" [] c = "E" -> "e"
      [] c = "L" -> "l"
      [] OTHER -> c

toLowerCase(str) == [i \in 1..Len(str) |-> LowerChar(str[i])]

\* String.prototype.includes
includes(str, op) ==
    \E i \in 0..Len(str) :
        /\ i + Len(op) <= Len(str)
        /\ \A j \in 1..Len(op) : str[i + j] = op[j]

----------------------------------------------------------------------------
(* Values *)

Null == [type |-> "null"]

\* action.params.command: a string, absent, or a JSON value that is no string
StringCmd(text) == [kind |-> "string", text |-> text]
NoCmd == [kind |-> "undefined", text |-> <<>>]
NumberCmd == [kind |-> "number", text |-> <<>>]

\* the object parseActionFromResponse returns (description left out)
Action(type, command, isFinal) == [type |-> type, command |-> command, isFinal |-> isFinal]

OpenApp == Action("app", NoCmd, FALSE)
TypeFinal == Action("keyboard", NoCmd, TRUE)
Shutdown == Action("system", StringCmd(<<"S","h","u","t","d","o","w","n"," ","/","s">>), FALSE)
ListDir == Action("system", StringCmd(<<"d","i","r">>), FALSE)
BadCommand == Action("system", NumberCmd, FALSE)
FormatFinal == Action("system", StringCmd(<<"f","o","r","m","a","t"," ","c",":">>), TRUE)


\* what processMessage gives back to reason(): a reply that holds a JSON
\* object, a reply without one, a reply whose braces hold no valid JSON, or
\* a rejection
Reply(obj) == [kind |-> "json", obj |-> obj]
Done == Reply([type |-> "DONE"])
NoJson == [kind |-> "nojson", obj |-> Null]
BadJson == [kind |-> "badjson", obj |-> Null]
Rejects == [kind |-> "rejects", obj |-> Null]

Browse == Action("browser", NoCmd, FALSE)
Teleport == Action("teleport", NoCmd, FALSE)

\* the Reasoner answers a single call is run against
Responses ==
    { Done, NoJson, BadJson, Rejects,
      Reply(OpenApp), Reply(TypeFinal), Reply(Shutdown), Reply(ListDir),
      Reply(BadCommand), Reply(Browse), Reply(Teleport), Reply(FormatFinal) }

\* the Reasoner answers two calls side by side are run against
FewResponses == {Done, Reply(TypeFinal), Reply(Shutdown), Reply(BadCommand)}

\* message of the TypeError raised by (5).toLowerCase()
TypeErrorMessage == "cmd.toLowerCase is not a function"

----------------------------------------------------------------------------
(* The Map this.activeTasks *)

MapHas(m, k) == \E e \in m : e.key = k

MapGet(m, k) == (CHOOSE e \in m : e.key = k).value

\* Map.prototype.set, and the variant of a list that appends
MapSetAppending(m, k, v) == m \cup {[key |-> k, value |-> v]}

\* variant of set that keeps the value a key already has
MapSetIfAbsent(m, k, v) == IF MapHas(m, k) THEN m ELSE m \cup {[key |-> k, value |-> v]}

MapSet(m, k, v) == {e \in m : e.key # k} \cup {[key |-> k, value |-> v]}

\* variant of delete that empties the Map
MapClear(m, k) == {}

\* Map.prototype.delete
MapDelete(m, k) == {e \in m : e.key # k}

----------------------------------------------------------------------------
(* A call of executeComplexTask: its taskState object and its locals *)

\* the call before it is made
Idle ==
    [ pc |-> "idle", session |-> "none",
      state |-> PENDING, prevState |-> PENDING,
      steps |-> <<>>, currentStep |-> 0,
      screenshots |-> <<>>, observations |-> <<>>, errors |-> <<>>,
      confirmationResult |-> "unset",
      prompt |-> Null, response |-> Null,
      nextAction |-> Null, confirmed |-> "none", actionResult |-> Null,
      reasonCalls |-> 0, removals |-> 0,
      emitted |-> <<>>, result |-> Null ]

\* taskState.state = s; prevState keeps the value it replaces
SetState(p, s) == [p EXCEPT !.prevState = p.state, !.state = s]

\* socket.emit / io.to('desktop_room').emit, in the order of emission
Emit(p, e) == [p EXCEPT !.emitted = Append(@, e)]

\* variant of the task:step event that counts the iterations from 0
StepEventFromZero(p, phase) == [ev |-> "task:step", step |-> p.currentStep - 1, phase |-> phase]

\* the task:step event of lines 102-106, 137-141 and 158-162
StepEvent(p, phase) == [ev |-> "task:step", step |-> p.currentStep, phase |-> phase]

\* variant of the final status that counts every state but FAILED as a success
FinalStatusUnlessFailed(p) ==
    LET finalResult == [ success |-> (p.state # FAILED),
                         steps |-> Len(p.steps),
                         errors |-> p.errors ]
    IN  [Emit(p, [ev |-> "task:completed", result |-> finalResult])
            EXCEPT !.result = finalResult, !.pc = "done"]

\* lines 180-192, with the return
FinalStatus(p) ==
    LET finalResult == [ success |-> (p.state = COMPLETED),
                         steps |-> Len(p.steps),
                         errors |-> p.errors ]
    IN  [Emit(p, [ev |-> "task:completed", result |-> finalResult])
            EXCEPT !.result = finalResult, !.pc = "done"]

\* variant whose final status is emitted on the way out of the catch block too
CatchThenCompleted(p, message) ==
    LET p1 == SetState(p, FAILED)
        p2 == [p1 EXCEPT !.errors = Append(@, message)]
        p3 == Emit(p2, [ev |-> "task:failed", error |-> message])
        p4 == Emit(p3, [ev |-> "task:completed", result |-> [success |-> FALSE, error |-> message]])
    IN  [p4 EXCEPT !.result = [success |-> FALSE, error |-> message], !.pc = "done"]

\* variant of the catch block that keeps the message out of the errors
CatchWithoutMessage(p, message) ==
    LET p1 == SetState(p, FAILED)
        p3 == Emit(p1, [ev |-> "task:failed", error |-> message])
    IN  [p3 EXCEPT !.result = [success |-> FALSE, error |-> message], !.pc = "done"]

\* the catch block, lines 194-204
Catch(p, message) ==
    LET p1 == SetState(p, FAILED)
        p2 == [p1 EXCEPT !.errors = Append(@, message)]
        p3 == Emit(p2, [ev |-> "task:failed", error |-> message])
    IN  [p3 EXCEPT !.result = [success |-> FALSE, error |-> message], !.pc = "done"]

\* the loop's guard, line 96, and its off-by-one variant
LoopGuardOffByOne(p) == p.currentStep <= maxSteps

LoopGuard(p) == p.currentStep < maxSteps

\* line 97
NoIncrement(p) == p

IncrementStep(p) == [p EXCEPT !.currentStep = @ + 1]

\* variant of the prompt that lists the steps without their outcome
PromptWithoutOutcomes(p) ==
    [ type |-> "prompt",
      history |-> [i \in 1..Len(p.steps) |->
                      [description |-> p.steps[i].action, outcome |-> <<"Success">>]],
      errors |-> <<>> ]

\* buildReasoningPrompt, lines 302-340: the parts that depend on the task
buildReasoningPrompt(p) ==
    [ type |-> "prompt",
      history |-> [i \in 1..Len(p.steps) |->
                      [description |-> p.steps[i].action,
                       outcome |-> IF p.steps[i].result.success
                                   THEN <<"Success">>
                                   ELSE <<"Failed: ", p.steps[i].result.error>>]],
      errors |-> p.errors ]

\* lines 96-108: the top of the loop up to the await of reason(), which builds
\* its prompt before it awaits processMessage; or the fall through to the
\* final status when the guard is false
LoopTop(p) ==
    IF LoopGuard(p)
    THEN LET p1 == IncrementStep(p)
             p2 == SetState(p1, REASONING)
             p3 == Emit(p2, StepEvent(p2, "reasoning"))
         IN  [p3 EXCEPT !.pc = "reason", !.reasonCalls = @ + 1,
                        !.prompt = buildReasoningPrompt(p3), !.response = Null,
                        !.nextAction = Null, !.confirmed = "none", !.actionResult = Null]
    ELSE FinalStatus(p)

\* variant that emits task:started after the loop has been entered
StartCallAnnouncingLate(s) ==
    LET p0 == [Idle EXCEPT !.session = s]
        p1 == LoopTop(p0)
    IN  Emit(p1, [ev |-> "task:started"])

\* lines 70-93 followed by the first entry of the loop
StartCall(s) ==
    LET p0 == [Idle EXCEPT !.session = s]
        p1 == Emit(p0, [ev |-> "task:started"])
    IN  LoopTop(p1)

\* variant of the parser that takes DONE for one more action type
ParseDoneAsAction(response) ==
    IF response.kind # "json" THEN Null
    ELSE IF response.obj.type = "DONE" THEN Action("DONE", NoCmd, FALSE)
    ELSE response.obj

\* variant of the parser that makes a wait of what it cannot parse
ParseUnparseableAsWait(response) ==
    IF response.kind # "json" THEN Action("wait", NoCmd, FALSE)
    ELSE IF response.obj.type = "DONE" THEN Null
    ELSE response.obj

\* parseActionFromResponse, lines 345-372
parseActionFromResponse(response) ==
    IF response.kind # "json" THEN Null
    ELSE IF response.obj.type = "DONE" THEN Null
    ELSE response.obj

\* variant of reason whose catch block answers a rejected Reasoner call with a
\* pause instead of null
ReasonPausesOnRejection(response) ==
    IF response.kind = "rejects" THEN Action("wait", NoCmd, FALSE)
    ELSE parseActionFromResponse(response)

\* reason, lines 214-224
reason(response) ==
    IF response.kind = "rejects" THEN Null ELSE parseActionFromResponse(response)

\* requiresConfirmation raises a TypeError when params.command is a truthy non-string
RequiresConfirmationThrows(action) ==
    action.type = "system" /\ action.command.kind = "number"

\* variant of requiresConfirmation that does not look at the type
RequiresConfirmationAnyType(action) ==
    \E op \in DANGEROUS_OPERATIONS : includes(toLowerCase(action.command.text), op)

\* requiresConfirmation, lines 492-498, where it does not throw
requiresConfirmation(action) ==
    IF action.type = "system"
    THEN LET cmd == toLowerCase(action.command.text)
         IN  \E op \in DANGEROUS_OPERATIONS : includes(cmd, op)
    ELSE FALSE

\* the channels act() emits on, lines 402-487
DesktopEvent(action) ==
    IF action.type \in {"app", "system", "keyboard"} THEN "command:execute"
    ELSE IF action.type = "mouse" THEN "gesture-control"
    ELSE "none"

\* variant of ACT in which a browser action queues for the page instead of
\* calling it
BeginActQueued(p) ==
    LET p1 == SetState(p, ACTING)
        p2 == Emit(p1, StepEvent(p1, "acting"))
        p3 == IF DesktopEvent(p.nextAction) = "none" THEN p2
              ELSE Emit(p2, [ev |-> DesktopEvent(p.nextAction), step |-> p.currentStep,
                             action |-> p.nextAction])
    IN  [p3 EXCEPT !.pc = IF p.nextAction.type = "browser" THEN "queued" ELSE "act"]

\* lines 135-143: ACT up to the await of act(); act() emits to the desktop
\* room before it awaits anything
BeginAct(p) ==
    LET p1 == SetState(p, ACTING)
        p2 == Emit(p1, StepEvent(p1, "acting"))
        p3 == IF DesktopEvent(p.nextAction) = "none" THEN p2
              ELSE Emit(p2, [ev |-> DesktopEvent(p.nextAction), step |-> p.currentStep,
                             action |-> p.nextAction])
    IN  [p3 EXCEPT !.pc = "act"]

\* variant of the gate that takes an approval stored by handleUserConfirmation
\* earlier for the answer to the confirmation it would ask for
AfterReasonRemembering(p, nextAction) ==
    IF nextAction = Null
    THEN FinalStatus(SetState(p, COMPLETED))
    ELSE LET p1 == [p EXCEPT !.nextAction = nextAction]
         IN  IF RequiresConfirmationThrows(nextAction)
             THEN Catch(p1, TypeErrorMessage)
             ELSE IF requiresConfirmation(nextAction) /\ p.confirmationResult # "true"
             THEN LET p2 == SetState(p1, AWAITING_CONFIRMATION)
                      p3 == Emit(p2, [ev |-> "task:confirmation_required",
                                      step |-> p.currentStep, action |-> nextAction])
                  IN  [p3 EXCEPT !.pc = "confirm", !.confirmed = "pending"]
             ELSE BeginAct(p1)

\* lines 110-126 for a parsed answer: done, the gate, or straight to ACT
AfterReason(p, nextAction) ==
    IF nextAction = Null
    THEN FinalStatus(SetState(p, COMPLETED))
    ELSE LET p1 == [p EXCEPT !.nextAction = nextAction]
         IN  IF RequiresConfirmationThrows(nextAction)
             THEN Catch(p1, TypeErrorMessage)
             ELSE IF requiresConfirmation(nextAction)
             THEN LET p2 == SetState(p1, AWAITING_CONFIRMATION)
                      p3 == Emit(p2, [ev |-> "task:confirmation_required",
                                      step |-> p.currentStep, action |-> nextAction])
                  IN  [p3 EXCEPT !.pc = "confirm", !.confirmed = "pending"]
             ELSE BeginAct(p1)

\* variants of the rejection branch: one that never looks at the answer, one
\* that records the rejection and goes on to ACT
ProceedWhateverTheAnswer(p) == BeginAct(p)

RejectionWithoutBreak(p) ==
    IF p.confirmed # "true"
    THEN BeginAct([SetState(p, FAILED) EXCEPT !.errors = Append(@, "User rejected action")])
    ELSE BeginAct(p)

\* lines 126-133 and on: the loop after waitForConfirmation has resolved
AfterConfirmation(p) ==
    IF p.confirmed # "true"
    THEN LET p1 == SetState(p, FAILED)
             p2 == [p1 EXCEPT !.errors = Append(@, "User rejected action")]
         IN  FinalStatus(p2)
    ELSE BeginAct(p)

\* variant that leaves the state at ACTING while it observes
AfterActWithoutObserving(p, actionResult) ==
    LET p1 == [p EXCEPT !.actionResult = actionResult,
                        !.steps = Append(@, [action |-> p.nextAction, result |-> actionResult])]
        p2 == Emit(p1, StepEvent(p1, "observing"))
    IN  [p2 EXCEPT !.pc = "observe"]

\* variant that records a Step only for an action that succeeded
AfterActRecordingSuccess(p, actionResult) ==
    LET p1 == [p EXCEPT !.actionResult = actionResult]
        p2 == IF actionResult.success
              THEN [p1 EXCEPT !.steps = Append(@, [action |-> p.nextAction,
                                                   result |-> actionResult])]
              ELSE [p1 EXCEPT !.errors = Append(@, actionResult.error)]
        p3 == SetState(p2, OBSERVING)
        p4 == Emit(p3, StepEvent(p3, "observing"))
    IN  [p4 EXCEPT !.pc = "observe"]

\* lines 143-164: the Step is recorded, OBSERVE begins
AfterAct(p, actionResult) ==
    LET p1 == [p EXCEPT !.actionResult = actionResult,
                        !.steps = Append(@, [action |-> p.nextAction, result |-> actionResult])]
        p2 == IF actionResult.success THEN p1
              ELSE [p1 EXCEPT !.errors = Append(@, actionResult.error)]
        p3 == SetState(p2, OBSERVING)
        p4 == Emit(p3, StepEvent(p3, "observing"))
    IN  [p4 EXCEPT !.pc = "observe"]

\* variant of observe that never reports the task complete
ObserveNeverComplete(p, shot) ==
    [ stepNumber |-> p.currentStep,
      actionSuccess |-> p.actionResult.success,
      screenshotPath |-> IF shot \in {"failed", "noservice"} THEN "null" ELSE shot,
      taskComplete |-> FALSE ]

\* variant of observe that reports the task complete only when the final
\* action succeeded
ObserveCompleteOnSuccess(p, shot) ==
    LET lastAction == p.steps[Len(p.steps)].action
    IN  [ stepNumber |-> p.currentStep,
          actionSuccess |-> p.actionResult.success,
          screenshotPath |-> IF shot \in {"failed", "noservice"} THEN "null" ELSE shot,
          taskComplete |-> lastAction.isFinal /\ p.actionResult.success ]

\* observe, lines 262-297; shot is the path capture() gave, or "failed"/"noservice"
observe(p, shot) ==
    LET lastAction == p.steps[Len(p.steps)].action
    IN  [ stepNumber |-> p.currentStep,
          actionSuccess |-> p.actionResult.success,
          screenshotPath |-> IF shot \in {"failed", "noservice"} THEN "null" ELSE shot,
          taskComplete |-> lastAction.isFinal ]

\* variant in which the observation of a failed capture is not recorded
AfterObserveUnrecorded(p, shot) ==
    LET observation == observe(p, shot)
        p2 == IF shot \in {"failed", "noservice"} THEN p
              ELSE [p EXCEPT !.screenshots = Append(@, shot),
                             !.observations = Append(@, observation)]
    IN  IF observation.taskComplete
        THEN FinalStatus(SetState(p2, COMPLETED))
        ELSE [p2 EXCEPT !.pc = "sleep"]

\* variant in which a capture that failed is pushed to context.errors
AfterObserveRecordingFailure(p, shot) ==
    LET observation == observe(p, shot)
        p1 == IF shot \in {"failed", "noservice"}
              THEN [p EXCEPT !.errors = Append(@, "Screenshot capture failed")]
              ELSE [p EXCEPT !.screenshots = Append(@, shot)]
        p2 == [p1 EXCEPT !.observations = Append(@, observation)]
    IN  IF observation.taskComplete
        THEN FinalStatus(SetState(p2, COMPLETED))
        ELSE [p2 EXCEPT !.pc = "sleep"]

\* lines 164-177: the observation is recorded; a final action ends the loop
AfterObserve(p, shot) ==
    LET observation == observe(p, shot)
        p1 == IF shot \in {"failed", "noservice"} THEN p
              ELSE [p EXCEPT !.screenshots = Append(@, shot)]
        p2 == [p1 EXCEPT !.observations = Append(@, observation)]
    IN  IF observation.taskComplete
        THEN FinalStatus(SetState(p2, COMPLETED))
        ELSE [p2 EXCEPT !.pc = "sleep"]

\* the finally block, lines 206-208, run when the call returns, and the variant
\* without it
KeepEntry(m, p) == m

Finally(m, p) == IF p.pc = "done" THEN MapDelete(m, p.session) ELSE m

\* history: how many times an entry that held task t left the Map
CountRemovals(r, m1, m2) ==
    [t \in Tasks |->
        IF (\E e \in m1 : e.value = t) /\ ~(\E e \in m2 : e.value = t)
        THEN [r[t] EXCEPT !.removals = @ + 1]
        ELSE r[t]]


----------------------------------------------------------------------------
(* Actions *)

\* the controller as server.js starts it (778-782): an empty Map, both
\* services injected
Init ==
    /\ activeTasks = {}
    /\ run = [t \in Tasks |-> Idle]
    /\ listeners = {}
    /\ timers = {}
    /\ cancelled = [s \in Sessions |-> "none"]
    /\ services = [browserAutomation |-> TRUE, screenshotService |-> TRUE]

\* a resumed call has run up to its next await, or has returned through finally
Commit(t, p) ==
    LET m == Finally(activeTasks, p)
    IN  /\ activeTasks' = m
        /\ run' = CountRemovals([run EXCEPT ![t] = p], activeTasks, m)

\* server.js socket.on('task:execute') with a valid description and a
\* connected desktop (the other cases return before the controller is called):
\* executeComplexTask up to its first await
Start(s, t) ==
    /\ run[t].pc = "idle"
    /\ \A u \in Tasks : u < t => run[u].pc # "idle"
    /\ LET p == StartCall(s)
           m == Finally(MapSet(activeTasks, s, t), p)
       IN  /\ activeTasks' = m
           /\ run' = CountRemovals([run EXCEPT ![t] = p], activeTasks, m)
    /\ UNCHANGED <<listeners, timers, cancelled, services>>

\* the await of reason() resumes; waitForConfirmation (lines 503-517) arms its
\* timer and attaches its handler when the gate asks for a confirmation
ReasonReturns(t, response) ==
    /\ run[t].pc = "reason"
    /\ LET p == AfterReason([run[t] EXCEPT !.response = response], reason(response))
       IN  /\ Commit(t, p)
           /\ listeners' = IF p.pc = "confirm" THEN listeners \cup {t} ELSE listeners
           /\ timers' = IF p.pc = "confirm" THEN timers \cup {t} ELSE timers
    /\ UNCHANGED <<cancelled, services>>

BoolName(b) == IF b THEN "true" ELSE "false"

\* handleUserConfirmation, lines 522-527
handleUserConfirmation(r, s, confirmed) ==
    [t \in Tasks |->
        IF MapHas(activeTasks, s) /\ MapGet(activeTasks, s) = t
           /\ r[t].state = AWAITING_CONFIRMATION
        THEN [r[t] EXCEPT !.confirmationResult = BoolName(confirmed)]
        ELSE r[t]]

\* variant of resolve in which the last resolution counts
ResolveOverwriting(p, value) == [p EXCEPT !.confirmed = value]

\* resolve(value) of the promise waitForConfirmation returned: only the first
\* resolution counts
Resolve(p, value) == [p EXCEPT !.confirmed = IF @ = "pending" THEN value ELSE @]

\* the await of waitForConfirmation resumes as soon as the promise is
\* resolved: the continuation is a microtask of the callback that resolved it
ResumeConfirmation(before, p) ==
    IF before.confirmed = "pending" THEN AfterConfirmation(p) ELSE p

\* the finally blocks of the calls of S that have returned
RECURSIVE FinallyAll(_, _, _)
FinallyAll(m, r, S) ==
    IF S = {} THEN m
    ELSE LET t == CHOOSE u \in S : TRUE
         IN  FinallyAll(Finally(m, r[t]), r, S \ {t})

\* a 'task:confirm' event on the socket of session s: the server's handler
\* (server.js 715-719), then every handler waitForConfirmation attached
\* (lines 509-513), then the loops that waited
ConfirmSignal(s, confirmed) ==
    LET heard == {t \in listeners : run[t].session = s}
        r1 == handleUserConfirmation(run, s, confirmed)
        r2 == [t \in Tasks |->
                 IF t \in heard
                 THEN ResumeConfirmation(r1[t], Resolve(r1[t], BoolName(confirmed)))
                 ELSE r1[t]]
        m == FinallyAll(activeTasks, r2, {t \in heard : r1[t].confirmed = "pending"})
    IN  /\ activeTasks' = m
        /\ run' = CountRemovals(r2, activeTasks, m)
        /\ listeners' = listeners \ heard
        /\ timers' = timers \ heard
        /\ UNCHANGED <<cancelled, services>>

\* a 'task:confirm' event on another socket that joined with the same
\* sessionId (server.js 459 and 478 take the id from the client): the server's
\* handler of that socket runs handleUserConfirmation for the session
\* (server.js 715-719); the handlers of waitForConfirmation are on the socket
\* the task was started from, and do not run
ConfirmFromOtherSocket(s, confirmed) ==
    /\ run' = handleUserConfirmation(run, s, confirmed)
    /\ UNCHANGED <<activeTasks, listeners, timers, cancelled, services>>

\* the 30000ms timer of waitForConfirmation fires: resolve(false), and the loop
\* that waited goes on; the handler stays attached
ConfirmTimeout(t) ==
    /\ t \in timers
    /\ timers' = timers \ {t}
    /\ Commit(t, ResumeConfirmation(run[t], Resolve(run[t], "false")))
    /\ UNCHANGED <<listeners, cancelled, services>>

\* variant of the message of line 252 that does not name the type
UnknownTypeMessageBare(type) == "Unknown action type"

\* `Unknown action type: ${action.type}`, line 252
UnknownTypeMessage(type) ==
    IF type = "teleport" THEN "Unknown action type: teleport" ELSE "Unknown action type: ?"

\* variant of executeBrowserAction without the test of line 378
BrowserActionUnchecked(available) ==
    {[success |-> TRUE], [success |-> FALSE, error |-> "browser failure"]}

\* executeBrowserAction, lines 377-397: without browserAutomation the result
\* of line 379; with it, success, or the message of what it threw
executeBrowserAction(available) ==
    IF ~available
    THEN {[success |-> FALSE, error |-> "Browser automation not available"]}
    ELSE {[success |-> TRUE], [success |-> FALSE, error |-> "browser failure"]}

\* the result of the 3000ms timeout of executeAppAction, line 415
NoAck == [success |-> TRUE, message |-> "Command sent (no ack)"]

\* variant of the timers in which the 1000ms handler of executeAppAction
\* leaves the 3000ms timeout armed
DesktopTimersNoClear(type) ==
    IF type = "app"
    THEN <<[delay |-> 3000, value |-> NoAck, clears |-> 0],
           [delay |-> 1000, value |-> [success |-> TRUE], clears |-> 0]>>
    ELSE IF type = "system"
    THEN <<[delay |-> 1000, value |-> [success |-> TRUE, message |-> "Command sent"],
            clears |-> 0]>>
    ELSE IF type = "keyboard"
    THEN <<[delay |-> 500, value |-> [success |-> TRUE], clears |-> 0]>>
    ELSE <<[delay |-> 100, value |-> [success |-> TRUE], clears |-> 0]>>

\* the timers a desktop action arms, in the order of its setTimeout calls
\* (lines 414-425, 443-445, 463-465, 482-484): the delay, the value the
\* callback resolves with, and the timer the callback clears (0: none)
DesktopTimers(type) ==
    IF type = "app"
    THEN <<[delay |-> 3000, value |-> NoAck, clears |-> 0],
           [delay |-> 1000, value |-> [success |-> TRUE], clears |-> 1]>>
    ELSE IF type = "system"
    THEN <<[delay |-> 1000, value |-> [success |-> TRUE, message |-> "Command sent"],
            clears |-> 0]>>
    ELSE IF type = "keyboard"
    THEN <<[delay |-> 500, value |-> [success |-> TRUE], clears |-> 0]>>
    ELSE <<[delay |-> 100, value |-> [success |-> TRUE], clears |-> 0]>>

\* the event loop on the timers of one desktop action: the armed timer with
\* the least delay fires (the one armed first among equals), its callback
\* clears the timer it names and calls resolve; the values passed to
\* resolve, in order
RECURSIVE RunTimers(_, _, _)
RunTimers(timerList, armed, resolved) ==
    IF armed = {} THEN resolved
    ELSE LET i == CHOOSE j \in armed :
                      \A k \in armed : timerList[j].delay < timerList[k].delay
                                        \/ (timerList[j].delay = timerList[k].delay /\ j <= k)
         IN  RunTimers(timerList, armed \ {i, timerList[i].clears},
                       Append(resolved, timerList[i].value))

\* the calls of resolve a desktop action makes
Resolutions(type) == RunTimers(DesktopTimers(type), DOMAIN DesktopTimers(type), <<>>)

\* the types act() sends to the desktop room
DesktopTypes == {"app", "system", "keyboard", "mouse"}

\* what act() can resolve to for an action, lines 229-257 and 377-487: a
\* promise takes the value of the first call of resolve
ActResults(action, available) ==
    IF action.type = "browser"
    THEN executeBrowserAction(available)
    ELSE IF action.type \in DesktopTypes
    THEN {Head(Resolutions(action.type))}
    ELSE IF action.type = "wait"
    THEN {[success |-> TRUE]}
    ELSE {[success |-> FALSE, error |-> UnknownTypeMessage(action.type)]}

\* every result act() resolves to in the model
ActOutcomes ==
    UNION {ActResults(response.obj, available) :
             response \in {r \in Responses : reason(r) # Null}, available \in BOOLEAN}

\* the results of the actions that succeeded
SuccessOutcomes == {actionResult \in ActOutcomes : actionResult.success}

\* the await of act() resumes, with a result the injected services allow
ActReturns(t, actionResult) ==
    /\ run[t].pc = "act"
    /\ actionResult \in ActResults(run[t].nextAction, services.browserAutomation)
    /\ Commit(t, AfterAct(run[t], actionResult))
    /\ UNCHANGED <<listeners, timers, cancelled, services>>

\* the await of observe() resumes; capture() is called only where a
\* screenshot service is set (line 272)
ObserveReturns(t, shot) ==
    /\ run[t].pc = "observe"
    /\ (shot = "noservice") <=> ~services.screenshotService
    /\ Commit(t, AfterObserve(run[t], shot))
    /\ UNCHANGED <<listeners, timers, cancelled, services>>

\* the await of sleep(500) resumes: back to the loop's guard
SleepReturns(t) ==
    /\ run[t].pc = "sleep"
    /\ Commit(t, LoopTop(run[t]))
    /\ UNCHANGED <<listeners, timers, cancelled, services>>

\* cancelTask, lines 546-555: the value it returns
cancelTaskReturns(s) == MapHas(activeTasks, s)

\* variant of cancelTask that records no error
cancelTaskWithoutError(s) ==
    IF MapHas(activeTasks, s)
    THEN LET t == MapGet(activeTasks, s)
             p1 == SetState(run[t], FAILED)
             m == MapDelete(activeTasks, s)
         IN  /\ activeTasks' = m
             /\ run' = CountRemovals([run EXCEPT ![t] = p1], activeTasks, m)
    ELSE UNCHANGED <<activeTasks, run>>

\* cancelTask, lines 546-555: what it changes
cancelTask(s) ==
    IF MapHas(activeTasks, s)
    THEN LET t == MapGet(activeTasks, s)
             p1 == SetState(run[t], FAILED)
             p2 == [p1 EXCEPT !.errors = Append(@, "Task cancelled by user")]
             m == MapDelete(activeTasks, s)
         IN  /\ activeTasks' = m
             /\ run' = CountRemovals([run EXCEPT ![t] = p2], activeTasks, m)
    ELSE UNCHANGED <<activeTasks, run>>

\* server.js socket.on('task:cancel'), lines 721-726
CancelRequest(s) ==
    /\ cancelTask(s)
    /\ cancelled' = [cancelled EXCEPT ![s] = BoolName(cancelTaskReturns(s))]
    /\ UNCHANGED <<listeners, timers, services>>

\* what screenshotService.capture() gives: a path, or a rejection
Shots == {"shot.png", "failed"}

\* the same, and no call of capture() at all where no service is set
ShotsOrNone == Shots \cup {"noservice"}

\* one call of executeComplexTask, with every Reasoner answer, action outcome,
\* confirmation, timeout and cancel; the call is made on session s1 (the code
\* treats every sessionId alike), the events come on the sockets of both
\* sessions
Next ==
    \/ Start("s1", 1)
    \/ \E response \in Responses : ReasonReturns(1, response)
    \/ \E s \in Sessions, confirmed \in BOOLEAN : ConfirmSignal(s, confirmed)
    \/ \E s \in Sessions, confirmed \in BOOLEAN : ConfirmFromOtherSocket(s, confirmed)
    \/ ConfirmTimeout(1)
    \/ \E actionResult \in ActOutcomes : ActReturns(1, actionResult)
    \/ \E shot \in Shots : ObserveReturns(1, shot)
    \/ SleepReturns(1)
    \/ \E s \in Sessions : CancelRequest(s)

Spec == Init /\ [][Next]_vars

\* every external call returns: the Reasoner, the action, the screenshot, the
\* sleep; a pending confirmation is resolved by its timer at the latest
Fairness ==
    /\ WF_vars(\E response \in Responses : ReasonReturns(1, response))
    /\ WF_vars(ConfirmTimeout(1))
    /\ WF_vars(\E actionResult \in ActOutcomes : ActReturns(1, actionResult))
    /\ WF_vars(\E shot \in Shots : ObserveReturns(1, shot))
    /\ WF_vars(SleepReturns(1))

FairSpec == Spec /\ Fairness

\* two calls of executeComplexTask on one session, side by side: the second
\* start replaces the entry of the first in the Map while the first still runs
NextSameSession ==
    \/ \E t \in Tasks : Start("s1", t)
    \/ \E t \in Tasks, response \in FewResponses : ReasonReturns(t, response)
    \/ \E confirmed \in BOOLEAN : ConfirmSignal("s1", confirmed)
    \/ \E t \in Tasks : ConfirmTimeout(t)
    \/ \E t \in Tasks, actionResult \in SuccessOutcomes : ActReturns(t, actionResult)
    \/ \E t \in Tasks : ObserveReturns(t, "shot.png")
    \/ \E t \in Tasks : SleepReturns(t)
    \/ CancelRequest("s1")

SpecSameSession == Init /\ [][NextSameSession]_vars

\* the Reasoner's answers in the runs of two sessions
PairResponses == {Done, Reply(Shutdown), Reply(Browse)}

\* two calls of executeComplexTask on two sessions, side by side, with the
\* confirm events of both sockets and the cancel events of the first (the code
\* treats every sessionId alike)
NextTwoSessions ==
    \/ Start("s1", 1)
    \/ Start("s2", 2)
    \/ \E t \in Tasks, response \in PairResponses : ReasonReturns(t, response)
    \/ \E s \in Sessions, confirmed \in BOOLEAN : ConfirmSignal(s, confirmed)
    \/ \E t \in Tasks : ConfirmTimeout(t)
    \/ \E t \in Tasks, actionResult \in SuccessOutcomes : ActReturns(t, actionResult)
    \/ \E t \in Tasks : ObserveReturns(t, "shot.png")
    \/ \E t \in Tasks : SleepReturns(t)
    \/ CancelRequest("s1")

SpecTwoSessions == Init /\ [][NextTwoSessions]_vars

\* action types and command texts put before requiresConfirmation
GateTypes == ActionType \cup {"teleport"}

GateCommands ==
    { NoCmd, StringCmd(<<>>), StringCmd(<<"d","i","r">>), StringCmd(<<"D","E","L">>),
      StringCmd(<<"S","h","u","t","d","o","w","n"," ","/","s">>),
      StringCmd(<<"u","n","f","o","r","m","a","t","t","e","d">>),
      StringCmd(<<"r","e","g"," ","q","u","e","r","y">>) }

GateResponses ==
    {Reply(Action(type, command, TRUE)) : type \in GateTypes, command \in GateCommands}
        \cup {Reply(BadCommand), Reply(OpenApp), Reply(Teleport)}

\* setServices (lines 55-58) was called with any of its arguments null, or
\* with none
InitGate ==
    /\ activeTasks = {}
    /\ run = [t \in Tasks |-> Idle]
    /\ listeners = {}
    /\ timers = {}
    /\ cancelled = [s \in Sessions |-> "none"]
    /\ services \in [browserAutomation : BOOLEAN, screenshotService : BOOLEAN]

\* one call whose Reasoner answers an action of any type with any command
\* text, final or followed by another: the gate of lines 119-133, act and
\* observe on every one of them, with and without the injected services
NextGate ==
    \/ Start("s1", 1)
    \/ \E response \in GateResponses : ReasonReturns(1, response)
    \/ \E confirmed \in BOOLEAN : ConfirmSignal("s1", confirmed)
    \/ ConfirmTimeout(1)
    \/ \E actionResult \in ActOutcomes : ActReturns(1, actionResult)
    \/ \E shot \in ShotsOrNone : ObserveReturns(1, shot)
    \/ SleepReturns(1)

SpecGate == InitGate /\ [][NextGate]_vars

----------------------------------------------------------------------------
(* Properties *)

Range(seq) == {seq[i] : i \in 1..Len(seq)}

\* the positions of the events of the given names in what a call emitted
Positions(p, names) == {i \in 1..Len(p.emitted) : p.emitted[i].ev \in names}

\* cancelTask has marked this task
Cancelled(p) == "Task cancelled by user" \in Range(p.errors)

\* the number of act() calls so far: each follows its task:step(acting) event
ActCalls(p) ==
    Cardinality({i \in Positions(p, {"task:step"}) : p.emitted[i].phase = "acting"})

\* C1: a dangerous action is dispatched only after task:confirmation_required
\* was emitted for it in the same iteration and waitForConfirmation resolved
\* true: every dispatch of a dangerous action in what a call emitted is preceded
\* by the confirmation request of that iteration for that action, and a call
\* whose dangerous action is in flight holds confirmed = true.
C1_DangerousNeedsConfirmation ==
    \A t \in Tasks :
        LET p == run[t]
        IN  /\ \A i \in Positions(p, {"command:execute", "gesture-control"}) :
                   requiresConfirmation(p.emitted[i].action) =>
                       \E j \in 1..(i - 1) :
                           p.emitted[j] = [ev |-> "task:confirmation_required",
                                           step |-> p.emitted[i].step,
                                           action |-> p.emitted[i].action]
            /\ (p.pc = "act" /\ requiresConfirmation(p.nextAction)) => p.confirmed = "true"

C1_Witness ==
    /\ run[1].pc = "act"
    /\ run[1].nextAction = Shutdown
    /\ run[1].confirmed = "true"
    /\ run[1].emitted[Len(run[1].emitted)].ev = "command:execute"

\* C2: when the confirmation is answered false or times out, the loop does
\* nothing but end: the task is FAILED, the result has success = false and
\* errors holding "User rejected action", the action of that iteration was not
\* dispatched, no Step was recorded for it and the Reasoner was not asked again.
C2_RejectionEndsTask ==
    \A t \in Tasks :
        LET p == run[t]
        IN  p.confirmed = "false" =>
                /\ p.pc = "done"
                /\ p.reasonCalls = p.currentStep
                /\ Len(p.steps) = p.currentStep - 1
                /\ ActCalls(p) = p.currentStep - 1
                /\ \A i \in Positions(p, {"command:execute", "gesture-control"}) :
                       p.emitted[i].step < p.currentStep
                /\ p.pc = "done" =>
                       /\ p.state = FAILED
                       /\ p.result.success = FALSE
                       /\ "User rejected action" \in Range(p.result.errors)
                       /\ p.emitted[Len(p.emitted)].ev = "task:completed"

C2_Witness ==
    /\ run[1].pc = "done"
    /\ run[1].confirmed = "false"
    /\ run[1].currentStep = 2
    /\ run[1].steps[1].action = Shutdown

\* C3: after cancelTask has returned true for a task, its loop asks the
\* Reasoner nothing more and dispatches no further action.
C3_CancelStopsTheLoop ==
    [][\A t \in Tasks :
          Cancelled(run[t]) =>
              /\ run'[t].reasonCalls = run[t].reasonCalls
              /\ ActCalls(run'[t]) = ActCalls(run[t])]_vars

\* C4: a call emits task:completed or task:failed at most once in all, and
\* exactly once by the time it has returned, whatever confirm, cancel or
\* replacing start came in between.
C4_OneTerminalEvent ==
    \A t \in Tasks :
        LET n == Cardinality(Positions(run[t], {"task:completed", "task:failed"}))
        IN  /\ n <= 1
            /\ run[t].pc = "done" <=> n = 1

C4_Witness ==
    /\ run[1].pc = "done"
    /\ run[2].pc = "done"
    /\ Cancelled(run[2])
    /\ run[1].emitted[Len(run[1].emitted)].ev = "task:failed"
    /\ run[2].emitted[Len(run[2].emitted)].ev = "task:completed"

\* C5: once a task's state is COMPLETED or FAILED it never changes again.
C5_TerminalStatesStay ==
    [][\A t \in Tasks :
          run[t].state \in {COMPLETED, FAILED} => run'[t].state = run[t].state]_vars

\* the chain as the claim C6 states it
ClaimedChain ==
    { <<PENDING, REASONING>>, <<REASONING, ACTING>>,
      <<ACTING, AWAITING_CONFIRMATION>>, <<ACTING, OBSERVING>>,
      <<AWAITING_CONFIRMATION, OBSERVING>>, <<OBSERVING, REASONING>> }
    \cup (TaskState \X {COMPLETED, FAILED})

\* C6 as claimed: every change of state is a link of the claimed chain.
C6_ClaimedChain ==
    \A t \in Tasks :
        run[t].prevState # run[t].state => <<run[t].prevState, run[t].state>> \in ClaimedChain

\* the chain the loop follows: the confirmation comes before ACTING
LoopChain ==
    { <<PENDING, REASONING>>, <<REASONING, ACTING>>,
      <<REASONING, AWAITING_CONFIRMATION>>, <<AWAITING_CONFIRMATION, ACTING>>,
      <<ACTING, OBSERVING>>, <<OBSERVING, REASONING>> }
    \cup ((TaskState \ {COMPLETED, FAILED}) \X {COMPLETED, FAILED})

\* C6 amended: every change of state is PENDING to REASONING, REASONING to
\* ACTING or AWAITING_CONFIRMATION, AWAITING_CONFIRMATION to ACTING, ACTING to
\* OBSERVING, OBSERVING to REASONING, or a change of a non-terminal state into
\* COMPLETED or FAILED; the one other change is that of a task cancelTask has
\* marked FAILED, whose running loop overwrites FAILED with its next state.
C6_LoopChain ==
    \A t \in Tasks :
        LET p == run[t]
        IN  p.prevState # p.state =>
                \/ <<p.prevState, p.state>> \in LoopChain
                \/ /\ p.prevState = FAILED
                   /\ Cancelled(p)
                   /\ p.state \in {REASONING, AWAITING_CONFIRMATION, ACTING, OBSERVING, COMPLETED}

C6_Witness ==
    /\ run[1].prevState = AWAITING_CONFIRMATION
    /\ run[1].state = ACTING
    /\ ~Cancelled(run[1])

\* C7: the number of Reasoner queries, currentStep and the number of recorded
\* Steps never exceed maxSteps.
C7_StepLimit ==
    \A t \in Tasks :
        /\ run[t].reasonCalls <= maxSteps
        /\ run[t].currentStep <= maxSteps
        /\ Len(run[t].steps) <= maxSteps

C7_Witness ==
    /\ run[1].pc = "done"
    /\ run[1].reasonCalls = maxSteps
    /\ Len(run[1].steps) = maxSteps
    /\ run[1].state = OBSERVING

\* C8: the step counter never decreases and grows by one with every Reasoner
\* query; and when every external call returns, a started call emits
\* task:completed or task:failed and returns, also when the Reasoner never
\* answers done and no action is final.
C8_LoopTerminates ==
    /\ [][\A t \in Tasks :
             /\ run'[t].currentStep >= run[t].currentStep
             /\ run'[t].reasonCalls # run[t].reasonCalls =>
                    run'[t].currentStep = run[t].currentStep + 1]_vars
    /\ (run[1].pc # "idle") ~>
           (/\ run[1].pc = "done"
            /\ run[1].emitted[Len(run[1].emitted)].ev \in {"task:completed", "task:failed"})

C8_Witness ==
    /\ run[1].pc = "done"
    /\ run[1].currentStep = maxSteps
    /\ \A i \in 1..Len(run[1].steps) : ~run[1].steps[i].action.isFinal
    /\ Len(run[1].steps) = maxSteps
    /\ run[1].emitted[Len(run[1].emitted)].ev = "task:completed"

\* C9: the Map holds at most one entry, hence at most one Task, per session id.
C9_OneTaskPerSession ==
    \A s \in Sessions : Cardinality({e \in activeTasks : e.key = s}) <= 1

C9_Witness ==
    /\ run[1].pc \notin {"idle", "done"}
    /\ run[2].pc \notin {"idle", "done"}
    /\ activeTasks = {[key |-> "s1", value |-> 2]}

\* C10: a call that has returned, on whichever exit path, has no entry left in
\* the Map, and the entry that held its Task left the Map exactly once.
C10_NoLeakedEntry ==
    \A t \in Tasks :
        /\ run[t].removals <= 1
        /\ run[t].pc = "done" =>
               /\ ~(\E e \in activeTasks : e.value = t)
               /\ run[t].removals = 1

C10_Witness ==
    /\ run[1].pc = "done"
    /\ run[1].emitted[Len(run[1].emitted)].ev = "task:failed"
    /\ run[2].pc = "done"
    /\ run[2].state = OBSERVING
    /\ run[1].removals = 1 /\ run[2].removals = 1

\* a loop of session s is still running
LoopRunning(s) == \E t \in Tasks : run[t].session = s /\ run[t].pc \notin {"idle", "done"}

\* C11: cancelTask(sessionId) returns false and changes nothing when the Map has
\* no entry for the session; when a loop of that session is still running it
\* returns true and the Map has no entry afterwards; task:cancelled carries the
\* returned boolean.
C11_CancelContract ==
    [][\A s \in Sessions :
          CancelRequest(s) =>
              /\ cancelled'[s] = BoolName(cancelTaskReturns(s))
              /\ ~MapHas(activeTasks, s) =>
                     cancelled'[s] = "false" /\ UNCHANGED <<activeTasks, run>>
              /\ LoopRunning(s) =>
                     cancelled'[s] = "true" /\ ~MapHas(activeTasks', s)]_vars

\* a cancel of a session that has an entry leaves the entry's task FAILED with
\* the given message appended to its errors
CancelRecords(message) ==
    \A s \in Sessions :
        (CancelRequest(s) /\ MapHas(activeTasks, s)) =>
            LET t == MapGet(activeTasks, s)
            IN  /\ run'[t].state = FAILED
                /\ run'[t].errors = Append(run[t].errors, message)

\* C12 as claimed: cancelTask on a session with an active task marks the task
\* FAILED and records the error "cancelled" in its errors.
C12_ClaimedMessage == [][CancelRecords("cancelled")]_vars

\* C12: cancelTask on a session with an entry in the Map marks the entry's task
\* FAILED and appends the error 'Task cancelled by user' to its errors.
C12_CancelMarksFailed == [][CancelRecords("Task cancelled by user")]_vars

C12_Witness ==
    /\ cancelled["s1"] = "true"
    /\ run[1].session = "s1"
    /\ run[1].pc = "act"
    /\ run[1].state = FAILED
    /\ run[1].errors = <<"Task cancelled by user">>
    /\ ~MapHas(activeTasks, "s1")

\* C13: waitForConfirmation resolves exactly once per call: a pending call is
\* resolved by a task:confirm signal on its session's socket, with the value of
\* the signal, or by its timer, with false; a resolved value is never changed by
\* a later signal or timeout (it is only forgotten when the next iteration
\* begins); and a pending call does get resolved.
C13_ResolvesOnce ==
    /\ [][\A t \in Tasks :
            LET before == run[t].confirmed
                after == run'[t].confirmed
            IN  /\ before \in {"true", "false"} => after \in {before, "none"}
                /\ (before = "pending" /\ after # "pending") =>
                       \/ ConfirmTimeout(t) /\ after = "false"
                       \/ \E confirmed \in BOOLEAN :
                              /\ ConfirmSignal(run[t].session, confirmed)
                              /\ after = BoolName(confirmed)]_vars
    /\ \A t \in Tasks :
           (run[t].confirmed = "pending") ~> (run[t].confirmed \in {"true", "false"})

\* the timer resolved the call with false, and a signal came afterwards
C13_Witness ==
    /\ run[1].pc = "done"
    /\ run[1].confirmed = "false"
    /\ run[1].confirmationResult = "unset"
    /\ run[1].errors = <<"User rejected action">>
    /\ 1 \notin listeners

\* C14: waitForConfirmation releases its task:confirm subscription on both
\* paths: a handler it attached is on the socket only while its confirmation is
\* pending.
C14_SubscriptionReleased ==
    \A t \in listeners : run[t].confirmed = "pending"

\* the calls whose pending confirmation this step resolves with true
ApprovedNow ==
    {t \in Tasks : run[t].confirmed = "pending" /\ run'[t].confirmed = "true"}

\* C15: a single task:confirm signal with confirmed = true approves at most one
\* pending dangerous action, also when two loops of one session wait on the
\* same socket.
C15_OneShot == [][Cardinality(ApprovedNow) <= 1]_vars

\* handleUserConfirmation(s, confirmed) is called in this step
ConfirmCalled(s, confirmed) ==
    ConfirmSignal(s, confirmed) \/ ConfirmFromOtherSocket(s, confirmed)

\* C16: handleUserConfirmation(sessionId, approved) delivers the boolean to the
\* pending confirmation of the session: when it is called while the session's
\* task is in AWAITING_CONFIRMATION, the waitForConfirmation of that task
\* resolves to approved.
C16_ConfirmDelivers ==
    [][\A s \in Sessions, confirmed \in BOOLEAN :
          (/\ ConfirmCalled(s, confirmed)
           /\ MapHas(activeTasks, s)
           /\ run[MapGet(activeTasks, s)].state = AWAITING_CONFIRMATION) =>
              run'[MapGet(activeTasks, s)].confirmed = BoolName(confirmed)]_vars

\* the action of iteration k of call t has failed, was not final, and k is not
\* the last iteration
FailedAt(t, k) ==
    /\ run[t].pc \in {"observe", "sleep"}
    /\ run[t].currentStep = k
    /\ k < maxSteps
    /\ ~run[t].actionResult.success
    /\ ~run[t].nextAction.isFinal

\* the prompt of a Reasoner query shows every failed Step of the call
FailuresInPrompt(p) ==
    \A i \in 1..Len(p.steps) :
        ~p.steps[i].result.success =>
            /\ p.prompt.history[i] = [description |-> p.steps[i].action,
                                      outcome |-> <<"Failed: ", p.steps[i].result.error>>]
            /\ p.steps[i].result.error \in Range(p.prompt.errors)

\* C17: a failed action is not fatal: when act returns success = false, a Step
\* with the failed result and the error are appended and the loop goes on to
\* observe; after a failed action that is not final, in an iteration k below
\* maxSteps, the call does not return and the next Reasoner query it makes is
\* that of iteration k + 1, with the failure in the history of its prompt; and
\* it does make that query.
C17_FailureIsNotFatal ==
    /\ [][\A t \in Tasks :
            LET p == run[t]
                q == run'[t]
            IN  /\ (p.pc = "act" /\ q.pc # "act" /\ ~q.actionResult.success) =>
                       /\ q.steps = Append(p.steps, [action |-> p.nextAction,
                                                     result |-> q.actionResult])
                       /\ q.errors = Append(p.errors, q.actionResult.error)
                       /\ q.pc = "observe"
                /\ (\E k \in 1..maxSteps : FailedAt(t, k)) =>
                       /\ q.pc \in {"observe", "sleep", "reason"}
                       /\ q.pc = "reason" =>
                              /\ q.currentStep = p.currentStep + 1
                              /\ q.reasonCalls = p.reasonCalls + 1
                              /\ FailuresInPrompt(q)]_vars
    /\ \A t \in Tasks :
           (\E k \in 1..maxSteps : FailedAt(t, k)) ~> (run[t].pc = "reason")

C17_Witness ==
    /\ run[1].pc = "reason"
    /\ run[1].currentStep = 2
    /\ run[1].steps = <<[action |-> Browse,
                         result |-> [success |-> FALSE, error |-> "browser failure"]]>>
    /\ run[1].prompt.history[1].outcome = <<"Failed: ", "browser failure">>
    /\ run[1].prompt.errors = <<"browser failure">>

\* the task:step events a call emitted, in order
StepEvents(p) == SelectSeq(p.emitted, LAMBDA e : e.ev = "task:step")

\* C18 as claimed: the step of the first task:step event is 1 and the step of
\* every later task:step event is exactly 1 more than that of the event before.
C18_ClaimedSteps ==
    \A t \in Tasks :
        LET S == StepEvents(run[t])
        IN  /\ Len(S) > 0 => S[1].step = 1
            /\ \A i \in 1..(Len(S) - 1) : S[i + 1].step = S[i].step + 1

\* C18: the step of a task:step event is the 1-based number of the iteration
\* that emits it; an iteration emits its events in the order reasoning, acting,
\* observing with the same step; the first event of a call has step 1, and the
\* first event of every further iteration has the step of the event before
\* plus 1.
C18_StepsFollowIterations ==
    \A t \in Tasks :
        LET S == StepEvents(run[t])
        IN  /\ Len(S) > 0 =>
                   /\ S[1] = [ev |-> "task:step", step |-> 1, phase |-> "reasoning"]
                   /\ S[Len(S)].step = run[t].reasonCalls
            /\ \A i \in 1..(Len(S) - 1) :
                   \/ /\ S[i + 1].step = S[i].step
                      /\ <<S[i].phase, S[i + 1].phase>> \in
                             {<<"reasoning", "acting">>, <<"acting", "observing">>}
                   \/ /\ S[i + 1].step = S[i].step + 1
                      /\ <<S[i].phase, S[i + 1].phase>> = <<"observing", "reasoning">>

C18_Witness ==
    LET S == StepEvents(run[1])
    IN  /\ Len(S) = 3 * maxSteps
        /\ S[Len(S)] = [ev |-> "task:step", step |-> maxSteps, phase |-> "observing"]

\* C19: when the Reasoner answers done on iteration 1, the call returns at once
\* with state COMPLETED and a result of success = true and steps = 0; no action
\* has been dispatched and no Observation recorded.
C19_DoneAtOnce ==
    [][\A t \in Tasks :
          LET p == run[t]
              q == run'[t]
          IN  (p.pc = "reason" /\ p.currentStep = 1 /\ q.response = Done) =>
                  /\ q.pc = "done"
                  /\ q.state = COMPLETED
                  /\ q.result.success /\ q.result.steps = 0
                  /\ q.steps = <<>> /\ q.observations = <<>>
                  /\ ActCalls(q) = 0
                  /\ Positions(q, {"command:execute", "gesture-control"}) = {}
                  /\ q.emitted[Len(q.emitted)].ev = "task:completed"]_vars

C19_Witness ==
    /\ run[1].pc = "done"
    /\ run[1].response = Done
    /\ run[1].currentStep = 1
    /\ run[1].state = COMPLETED
    /\ run[1].result.steps = 0

\* the Reasoner has yielded a final action in the current iteration of p, after
\* actions that were neither dangerous nor final in the iterations before
FinalAfterPlain(p) ==
    /\ p.nextAction # Null
    /\ p.nextAction.isFinal
    /\ \A i \in 1..Len(p.steps) :
           i < p.currentStep =>
               ~p.steps[i].action.isFinal /\ ~requiresConfirmation(p.steps[i].action)

\* the call has returned COMPLETED with as many Steps as iterations and as
\* Reasoner queries
CompletedInStep(p) ==
    /\ p.state = COMPLETED
    /\ Len(p.steps) = p.currentStep
    /\ p.reasonCalls = p.currentStep
    /\ p.result.success /\ p.result.steps = p.currentStep

\* C20 as claimed: after non-dangerous, non-final actions in iterations
\* 1..k-1 and an action with isFinal = true in iteration k, the call does not go
\* on to another iteration and returns COMPLETED with exactly k Steps.
C20_ClaimedFinal ==
    \A t \in Tasks :
        FinalAfterPlain(run[t]) =>
            /\ run[t].pc # "sleep"
            /\ run[t].pc = "done" => CompletedInStep(run[t])

\* the action of the current iteration passes the gate of lines 119-133
PassesGate(p) ==
    /\ ~RequiresConfirmationThrows(p.nextAction)
    /\ requiresConfirmation(p.nextAction) => p.confirmed = "true"

\* C20: after non-dangerous, non-final actions in iterations 1..k-1 and an
\* action with isFinal = true in iteration k that is not dangerous, or is
\* dangerous and confirmed, the call does not go on to another iteration and
\* returns COMPLETED with exactly k Steps and k Reasoner queries.
C20_FinalActionCompletes ==
    \A t \in Tasks :
        (FinalAfterPlain(run[t]) /\ PassesGate(run[t])) =>
            /\ run[t].pc # "sleep"
            /\ run[t].pc = "done" => CompletedInStep(run[t])

C20_Witness ==
    /\ run[1].pc = "done"
    /\ run[1].state = COMPLETED
    /\ run[1].steps = <<[action |-> OpenApp, result |-> [success |-> TRUE]],
                        [action |-> TypeFinal, result |-> [success |-> TRUE]]>>
    /\ run[1].reasonCalls = 2
    /\ run[1].result.steps = 2

\* the Reasoner's answer makes requiresConfirmation throw inside the loop
ThrowsInLoop(response) ==
    reason(response) # Null /\ RequiresConfirmationThrows(reason(response))

\* C21: an exception thrown inside the loop that reason, act and observe do not
\* absorb ends the call at once: state FAILED, the exception's message appended
\* to the errors, task:failed emitted with that message and no task:completed,
\* and {success: false, error: message} returned.
C21_ExceptionFailsTask ==
    [][\A t \in Tasks :
          LET p == run[t]
              q == run'[t]
          IN  (p.pc = "reason" /\ q.response # Null /\ ThrowsInLoop(q.response)) =>
                  /\ q.pc = "done"
                  /\ q.state = FAILED
                  /\ q.errors = Append(p.errors, TypeErrorMessage)
                  /\ q.emitted = Append(p.emitted, [ev |-> "task:failed",
                                                    error |-> TypeErrorMessage])
                  /\ q.result = [success |-> FALSE, error |-> TypeErrorMessage]
                  /\ q.steps = p.steps]_vars

C21_Witness ==
    /\ run[1].pc = "done"
    /\ run[1].response = Reply(BadCommand)
    /\ run[1].currentStep = 2
    /\ run[1].state = FAILED
    /\ run[1].result = [success |-> FALSE, error |-> TypeErrorMessage]
    /\ Len(run[1].steps) = 1

\* the call has returned through the loop's guard after maxSteps full
\* iterations: no done answer, no final action, no rejection, no exception
ExhaustedExit(p) ==
    /\ p.pc = "done"
    /\ p.currentStep = maxSteps
    /\ Len(p.observations) = maxSteps
    /\ ~p.nextAction.isFinal

\* C22: when the loop runs maxSteps iterations without a done answer, a final
\* action or a rejection, the task's state at exit is neither COMPLETED nor
\* FAILED (it stays OBSERVING), task:completed is emitted with success = false
\* and steps = maxSteps, and task:failed is not emitted.
C22_ExhaustedUnclassified ==
    \A t \in Tasks :
        ExhaustedExit(run[t]) =>
            /\ run[t].state = OBSERVING
            /\ run[t].result.success = FALSE
            /\ run[t].result.steps = maxSteps
            /\ run[t].emitted[Len(run[t].emitted)] =
                   [ev |-> "task:completed", result |-> run[t].result]
            /\ Positions(run[t], {"task:failed"}) = {}

\* C23: a start on a session that already has a Task in the Map replaces it
\* silently: when the new call has registered its Task the Map gives the new
\* Task for the session, the new call has emitted task:started and its first
\* task:step and no task:failed, and the earlier call is left as it was, neither
\* marked FAILED nor moved from the await it stands at.
C23_SilentReplace ==
    [][\A s \in Sessions, t \in Tasks :
          (Start(s, t) /\ MapHas(activeTasks, s)) =>
              LET u == MapGet(activeTasks, s)
              IN  /\ MapGet(activeTasks', s) = t
                  /\ run'[t].emitted =
                         <<[ev |-> "task:started"],
                           [ev |-> "task:step", step |-> 1, phase |-> "reasoning"]>>
                  /\ run'[t].errors = <<>>
                  /\ [run'[u] EXCEPT !.removals = run[u].removals] = run[u]
                  /\ run[u].pc \notin {"idle", "done"}]_vars

\* the earlier call has run to its end after it was replaced: its finally block
\* took the entry of the later call, which is still running and was not cancelled
C23_Witness ==
    /\ run[1].pc = "done"
    /\ run[1].state = COMPLETED
    /\ Len(run[1].steps) = 1
    /\ run[2].pc \notin {"idle", "done"}
    /\ run[2].removals = 1
    /\ cancelled["s1"] = "none"

\* the step is one of session a: a start, a cancel or a confirm on its socket,
\* or a step of the loop of one of its tasks
StepOf(a) ==
    \/ \E t \in Tasks : Start(a, t)
    \/ CancelRequest(a)
    \/ \E confirmed \in BOOLEAN : ConfirmSignal(a, confirmed)
    \/ \E t \in Tasks : run[t].session = a /\ run'[t].pc # run[t].pc

\* the Map entry of session b and the Tasks of session b are as they were
SessionUnchanged(b) ==
    /\ {e \in activeTasks' : e.key = b} = {e \in activeTasks : e.key = b}
    /\ \A t \in Tasks :
           run[t].session = b =>
               /\ run'[t].session = b
               /\ run'[t].state = run[t].state
               /\ run'[t].steps = run[t].steps
               /\ run'[t].currentStep = run[t].currentStep
               /\ run'[t].screenshots = run[t].screenshots
               /\ run'[t].observations = run[t].observations
               /\ run'[t].errors = run[t].errors

\* C24: tasks of different sessions are independent: a start, a cancel, a
\* confirm and every loop step of session A leave the Map entry of any other
\* session B and B's Task (state, steps, currentStep, context) unchanged.
C24_SessionsIndependent ==
    [][\A a \in Sessions, b \in Sessions :
          (a # b /\ StepOf(a)) => SessionUnchanged(b)]_vars

\* both sessions have a task under way, the first cancelled, the second
\* waiting for its confirmation
C24_Witness ==
    /\ run[1].session = "s1" /\ run[1].pc = "act" /\ Cancelled(run[1])
    /\ run[2].session = "s2" /\ run[2].pc = "confirm"
    /\ activeTasks = {[key |-> "s2", value |-> 2]}

\* the answer C25 gives for an action
ClaimedGate(action) ==
    /\ action.type = "system"
    /\ LET text == toLowerCase(action.command.text)
       IN  \E op \in DANGEROUS_OPERATIONS, i \in 1..Len(text) :
               /\ i + Len(op) - 1 <= Len(text)
               /\ SubSeq(text, i, i + Len(op) - 1) = op

\* C25: requiresConfirmation(action) is true exactly when action.type is system
\* and the lower-cased command text contains a deny-list term; it is false for
\* every action of another type whatever its parameters; the answer depends on
\* the action alone, and the loop asks for a confirmation exactly when it is
\* true.
C25_GateIsDenyList ==
    [][\A t \in Tasks :
          LET action == run'[t].nextAction
          IN  (/\ run[t].pc = "reason"
               /\ action # Null
               /\ ~RequiresConfirmationThrows(action)) =>
                  /\ requiresConfirmation(action) <=> ClaimedGate(action)
                  /\ action.type # "system" => ~requiresConfirmation(action)
                  /\ run'[t].pc = "confirm" <=> ClaimedGate(action)
                  /\ run'[t].pc \in {"confirm", "act"}]_vars

\* a keyboard action whose text holds a deny-list term is dispatched unasked
C25_Witness ==
    /\ run[1].pc = "act"
    /\ run[1].nextAction = Action("keyboard", StringCmd(<<"D","E","L">>), TRUE)
    /\ run[1].confirmed = "none"

\* C26: a Reasoner response that cannot be parsed into an action (no JSON
\* object in it, or invalid JSON) is treated as done: the loop ends in that
\* iteration with state COMPLETED and success = true, and no action is
\* dispatched or recorded in that iteration.
C26_UnparseableIsDone ==
    [][\A t \in Tasks :
          LET p == run[t]
              q == run'[t]
          IN  (p.pc = "reason" /\ q.response \in {NoJson, BadJson}) =>
                  /\ q.pc = "done"
                  /\ q.state = COMPLETED
                  /\ q.result = [success |-> TRUE, steps |-> Len(p.steps),
                                 errors |-> p.errors]
                  /\ q.steps = p.steps
                  /\ q.emitted = Append(p.emitted, [ev |-> "task:completed",
                                                    result |-> q.result])]_vars

C26_Witness ==
    /\ run[1].pc = "done"
    /\ run[1].response = BadJson
    /\ run[1].currentStep = 2
    /\ run[1].state = COMPLETED
    /\ Len(run[1].steps) = 1

\* call t has a browser action in flight on the page of the one
\* BrowserAutomation instance
BrowserCallInFlight(t) == run[t].pc = "act" /\ run[t].nextAction.type = "browser"

\* C27: the code enforces no mutual exclusion on the one BrowserAutomation
\* instance: a call whose Reasoner answers a browser action enters the browser
\* call at once, whether or not a call of another session has one in flight,
\* and a browser call in flight is not disturbed by that.
C27_NoBrowserExclusion ==
    [][\A t \in Tasks :
          LET action == run'[t].nextAction
          IN  (run[t].pc = "reason" /\ action # Null /\ action.type = "browser") =>
                  /\ BrowserCallInFlight(t)'
                  /\ \A u \in Tasks \ {t} :
                         BrowserCallInFlight(u) => BrowserCallInFlight(u)']_vars

\* two tasks of different sessions have a browser call in flight together
C27_Witness ==
    /\ run[1].session = "s1" /\ BrowserCallInFlight(1)
    /\ run[2].session = "s2" /\ BrowserCallInFlight(2)

\* call t is the latest of its session: no later call was started on it
Latest(t) ==
    \A u \in Tasks : (u > t /\ run[u].pc # "idle") => run[u].session # run[t].session

\* C28: while a call's loop is running and the call has been neither cancelled
\* nor replaced by a later start, the Map gives its Task for its session (so
\* that cancelTask on the session returns true): the finally block of an
\* earlier call of the session never removes the entry of the later one.
C28_LatestTaskRegistered ==
    \A t \in Tasks :
        (run[t].pc \notin {"idle", "done"} /\ ~Cancelled(run[t]) /\ Latest(t)) =>
            /\ MapHas(activeTasks, run[t].session)
            /\ MapGet(activeTasks, run[t].session) = t
            /\ cancelTaskReturns(run[t].session)

\* C29: a task for which cancelTask returned true never afterwards emits
\* task:completed with success = true, wherever in the loop the cancel arrived.
C29_CancelledNeverSucceeds ==
    \A t \in Tasks :
        Cancelled(run[t]) =>
            \A i \in Positions(run[t], {"task:completed"}) :
                ~run[t].emitted[i].result.success

\* C30: a task:confirm signal received while no confirmation is awaited is not
\* remembered: every dangerous action the Reasoner proposes starts a
\* confirmation that is pending, with its own handler and timer, whatever
\* signals came before; and a pending confirmation becomes true only in the
\* step of a task:confirm {confirmed: true} on its socket, and false only in the
\* step of a task:confirm {confirmed: false} on its socket or of its timer.
C30_SignalsNotRemembered ==
    [][\A t \in Tasks :
          LET p == run[t]
              q == run'[t]
          IN  /\ (/\ p.pc = "reason"
                  /\ q.nextAction # Null
                  /\ ~RequiresConfirmationThrows(q.nextAction)
                  /\ requiresConfirmation(q.nextAction)) =>
                     /\ q.pc = "confirm"
                     /\ q.confirmed = "pending"
                     /\ t \in listeners' /\ t \in timers'
              /\ (p.confirmed = "pending" /\ q.confirmed = "true") =>
                     ConfirmSignal(p.session, TRUE)
              /\ (p.confirmed = "pending" /\ q.confirmed = "false") =>
                     ConfirmSignal(p.session, FALSE) \/ ConfirmTimeout(t)]_vars

\* a signal came while the session's Task, that of the second call, awaited
\* nothing (it took the handler of the first call off the socket, and
\* handleUserConfirmation stored nothing); the dangerous action the second call
\* proposed afterwards is undecided
C30_Witness ==
    /\ run[1].pc = "done"
    /\ run[1].errors = <<"User rejected action">>
    /\ run[1].confirmationResult = "unset"
    /\ run[2].pc = "confirm"
    /\ run[2].confirmed = "pending"
    /\ listeners = {2}

\* C31: a Reasoner call that rejects is absorbed by reason and treated as
\* done: the task ends in that iteration with state COMPLETED and success =
\* true, task:failed is not emitted and no message is added to the errors.
C31_RejectedReasonerIsDone ==
    [][\A t \in Tasks :
          LET p == run[t]
              q == run'[t]
          IN  (p.pc = "reason" /\ q.response = Rejects) =>
                  /\ q.pc = "done"
                  /\ q.state = COMPLETED
                  /\ q.result.success
                  /\ q.errors = p.errors
                  /\ q.result.errors = p.errors
                  /\ q.currentStep = p.currentStep
                  /\ Positions(q, {"task:failed"}) = {}
                  /\ q.emitted[Len(q.emitted)].ev = "task:completed"]_vars

\* the Reasoner rejected in the second iteration, after a recorded Step
C31_Witness ==
    /\ run[1].pc = "done"
    /\ run[1].response = Rejects
    /\ run[1].currentStep = 2
    /\ run[1].state = COMPLETED
    /\ run[1].result.success
    /\ Len(run[1].steps) = 1
    /\ run[1].errors = <<>>

\* C32: task completion is read only from the action's isFinal flag: after
\* observe, an action with isFinal = true ends the task COMPLETED with result
\* success = true whether or not its execution succeeded, and the error of a
\* failed execution is in the result's errors; an action with isFinal = false
\* never ends the task there: the loop goes to its sleep.
C32_CompletionFromIsFinal ==
    [][\A t \in Tasks :
          LET p == run[t]
              q == run'[t]
          IN  (p.pc = "observe" /\ q # p) =>
                  IF p.nextAction.isFinal
                  THEN /\ q.pc = "done"
                       /\ q.state = COMPLETED
                       /\ q.result.success
                       /\ q.observations[Len(q.observations)].taskComplete
                       /\ ~p.actionResult.success =>
                              /\ p.actionResult.error \in Range(q.result.errors)
                              /\ ~q.observations[Len(q.observations)].actionSuccess
                  ELSE /\ q.pc = "sleep"
                       /\ q.state = OBSERVING
                       /\ ~q.observations[Len(q.observations)].taskComplete
                       /\ q.result = p.result]_vars

\* a final action of an unknown type failed, and the task ended COMPLETED
\* with success = true and the action's error in the result
C32_Witness ==
    /\ run[1].pc = "done"
    /\ run[1].state = COMPLETED
    /\ run[1].result.success
    /\ run[1].nextAction.isFinal
    /\ run[1].nextAction.type = "teleport"
    /\ ~run[1].steps[Len(run[1].steps)].result.success
    /\ run[1].result.errors = <<UnknownTypeMessage("teleport")>>

\* C33: a screenshot capture failure is never fatal: when capture rejects, or
\* no screenshot service is set, observe still returns an Observation, with
\* screenshotPath null; nothing is appended to context.screenshots or
\* context.errors, and the iteration goes on as it does after a successful
\* capture: the same state, events, result and next await.
C33_CaptureFailureNotFatal ==
    [][\A t \in Tasks :
          LET p == run[t]
              q == run'[t]
              captured == AfterObserve(p, "shot.png")
              last == q.observations[Len(q.observations)]
          IN  (p.pc = "observe" /\ q # p /\ q.screenshots = p.screenshots) =>
                  /\ Len(q.observations) = Len(p.observations) + 1
                  /\ last.screenshotPath = "null"
                  /\ last = [observe(p, "shot.png") EXCEPT !.screenshotPath = "null"]
                  /\ q.errors = p.errors
                  /\ q.pc = captured.pc /\ q.pc \in {"sleep", "done"}
                  /\ q.state = captured.state /\ q.state # FAILED
                  /\ q.emitted = captured.emitted
                  /\ q.result = captured.result
                  /\ Positions(q, {"task:failed"}) = {}]_vars

\* capture rejected in the first iteration and the loop went on to the
\* second, where no service was asked again yet
C33_Witness ==
    /\ services.screenshotService
    /\ run[1].pc = "reason"
    /\ run[1].currentStep = 2
    /\ run[1].screenshots = <<>>
    /\ run[1].errors = <<>>
    /\ Len(run[1].observations) = 1
    /\ run[1].observations[1].screenshotPath = "null"
    /\ run[1].observations[1].actionSuccess

\* the task:step(observing) events a call emitted, in order: one is emitted
\* by the iteration that has just recorded a Step (lines 144-162)
ObservingEvents(p) ==
    SelectSeq(p.emitted, LAMBDA e : e.ev = "task:step" /\ e.phase = "observing")

\* C34: one Observation is recorded per Step and the counters stay ordered:
\* in every reachable state observations.length <= steps.length <=
\* currentStep <= maxSteps; the two lengths differ, by one, only while observe
\* is awaited, so they are equal between iterations and after the end; and
\* the i-th Observation has the stepNumber of the iteration that recorded the
\* i-th Step, which is i.
C34_CountersOrdered ==
    \A t \in Tasks :
        LET p == run[t]
            O == ObservingEvents(p)
        IN  /\ Len(p.observations) <= Len(p.steps)
            /\ Len(p.steps) <= p.currentStep
            /\ p.currentStep <= maxSteps
            /\ Len(p.steps) = Len(p.observations) + (IF p.pc = "observe" THEN 1 ELSE 0)
            /\ p.pc \in {"sleep", "done"} => Len(p.observations) = Len(p.steps)
            /\ Len(O) = Len(p.steps)
            /\ \A i \in 1..Len(p.observations) :
                   /\ p.observations[i].stepNumber = O[i].step
                   /\ p.observations[i].stepNumber = i
                   /\ p.observations[i].actionSuccess = p.steps[i].result.success

\* the task ended at the step limit with an Observation for each of its
\* Steps, the second after a capture that failed
C34_Witness ==
    /\ run[1].pc = "done"
    /\ run[1].currentStep = maxSteps
    /\ Len(run[1].steps) = maxSteps
    /\ Len(run[1].observations) = maxSteps
    /\ run[1].observations[maxSteps].stepNumber = maxSteps
    /\ run[1].observations[maxSteps].screenshotPath = "null"
    /\ ~run[1].nextAction.isFinal
    /\ ~Cancelled(run[1])

\* the calls of act() that have returned
ActReturned(p) == ActCalls(p) - (IF p.pc = "act" THEN 1 ELSE 0)

\* C35: every dispatched action is recorded and recorded Steps are never
\* altered: the return of act appends exactly one Step holding the action and
\* its result, whatever the outcome, so the number of Steps is the number of
\* act calls that returned; no other step of the program changes Task.steps,
\* a cancel included.
C35_StepsAppendOnly ==
    [][\A t \in Tasks :
          LET p == run[t]
              q == run'[t]
          IN  /\ IF p.pc = "act" /\ q.pc # "act"
                 THEN /\ q.pc = "observe"
                      /\ q.steps = Append(p.steps, [action |-> p.nextAction,
                                                    result |-> q.actionResult])
                 ELSE q.steps = p.steps
              /\ Len(p.steps) = ActReturned(p)
              /\ Len(q.steps) = ActReturned(q)]_vars

\* the failed action of the second iteration was recorded behind the Step of
\* the first, after the task had been cancelled
C35_Witness ==
    /\ run[1].pc = "observe"
    /\ Cancelled(run[1])
    /\ Len(run[1].steps) = 2
    /\ run[1].steps[1].result.success
    /\ ~run[1].steps[2].result.success
    /\ run[1].steps[2].action = run[1].nextAction
    /\ run[1].errors[1] = "Task cancelled by user"
    /\ Len(run[1].errors) = 2

\* C36: act never throws: for every action type, and whether the browser
\* succeeds, fails or is not available, the await of act gives a result with
\* a boolean success; the loop goes on to record it and observe, the catch
\* block of executeComplexTask is not entered. What the browser threw comes
\* back as {success: false, error: message}, and a browser action without
\* browser automation gives the result of line 379 and no other.
C36_ActNeverThrows ==
    [][\A t \in Tasks :
          LET p == run[t]
              q == run'[t]
              r == q.actionResult
          IN  (p.pc = "act" /\ q # p) =>
                  /\ q.pc = "observe"
                  /\ q.state = OBSERVING
                  /\ Positions(q, {"task:failed"}) = {}
                  /\ "success" \in DOMAIN r
                  /\ r.success \in BOOLEAN
                  /\ DOMAIN r \subseteq {"success", "error", "message"}
                  /\ q.steps[Len(q.steps)].result = r
                  /\ ~r.success => /\ "error" \in DOMAIN r
                                   /\ q.errors = Append(p.errors, r.error)
                  /\ r.success => q.errors = p.errors
                  /\ p.nextAction.type = "browser" =>
                         IF services.browserAutomation
                         THEN r.success \/ r.error = "browser failure"
                         ELSE r = [success |-> FALSE,
                                   error |-> "Browser automation not available"]
                  /\ p.nextAction.type \in ActionType \ {"browser"} => r.success]_vars

\* a browser action was recorded as failed where no browser automation is set
C36_Witness ==
    /\ ~services.browserAutomation
    /\ run[1].pc = "observe"
    /\ run[1].nextAction.type = "browser"
    /\ run[1].actionResult = [success |-> FALSE,
                              error |-> "Browser automation not available"]
    /\ run[1].errors = <<"Browser automation not available">>

\* C37 as claimed: every Step recorded for an action whose type is none of
\* browser, app, system, keyboard, mouse, wait holds the result
\* {success: false, error: "Unknown action type"}.
C37_ClaimedResult ==
    \A t \in Tasks :
        \A i \in 1..Len(run[t].steps) :
            run[t].steps[i].action.type \notin ActionType =>
                run[t].steps[i].result = [success |-> FALSE, error |-> "Unknown action type"]

\* C37, amended: an action whose type is none of browser, app, system,
\* keyboard, mouse, wait is dispatched with no emission to the desktop room
\* (only task:step(acting) is emitted) and with no browser call; act gives
\* {success: false, error: "Unknown action type: " followed by the type}; the
\* result is recorded as a failed Step, its error is pushed to the errors,
\* and the loop goes on: to observe, and from there to the next iteration
\* unless the action is final.
C37_UnknownTypeFails ==
    [][\A t \in Tasks :
          LET p == run[t]
              q == run'[t]
              unknown == q.nextAction # Null /\ q.nextAction.type = "teleport"
          IN  /\ (p.pc \in {"reason", "confirm"} /\ q.pc = "act" /\ unknown) =>
                     /\ q.emitted = Append(p.emitted, StepEvent(q, "acting"))
                     /\ Positions(q, {"command:execute", "gesture-control"}) =
                            Positions(p, {"command:execute", "gesture-control"})
                     /\ ~BrowserCallInFlight(t)'
              /\ (p.pc = "act" /\ q # p /\ unknown) =>
                     /\ q.actionResult = [success |-> FALSE,
                                          error |-> "Unknown action type: teleport"]
                     /\ q.steps = Append(p.steps, [action |-> p.nextAction,
                                                   result |-> q.actionResult])
                     /\ q.errors = Append(p.errors, "Unknown action type: teleport")
                     /\ q.pc = "observe"
              /\ (p.pc = "observe" /\ q # p /\ unknown) =>
                     q.pc = IF p.nextAction.isFinal THEN "done" ELSE "sleep"]_vars

\* an action of an unknown type failed in the first iteration and the loop is
\* in its second
C37_Witness ==
    /\ run[1].pc = "reason"
    /\ run[1].currentStep = 2
    /\ run[1].steps = <<[action |-> Teleport,
                         result |-> [success |-> FALSE,
                                     error |-> "Unknown action type: teleport"]]>>
    /\ run[1].errors = <<"Unknown action type: teleport">>
    /\ Positions(run[1], {"command:execute", "gesture-control"}) = {}

\* the delay after which the promise of a desktop action resolves
FixedDelay(type) ==
    IF type \in {"app", "system"} THEN 1000 ELSE IF type = "keyboard" THEN 500 ELSE 100

\* C38: for an app, system, keyboard or mouse action act emits exactly one
\* message to the desktop room, and its promise resolves once, with success =
\* true, by the timer of the channel's fixed delay and with no event from the
\* remote side; for app the 1000ms handler clears the 3000ms timeout before
\* that fires, so resolve is called once and never with the no-ack result.
C38_DesktopDispatch ==
    [][\A t \in Tasks :
          LET p == run[t]
              q == run'[t]
              desktop == q.nextAction # Null /\ q.nextAction.type \in DesktopTypes
              type == q.nextAction.type
              T == DesktopTimers(type)
          IN  /\ (p.pc \in {"reason", "confirm"} /\ q.pc = "act" /\ desktop) =>
                     /\ Len(q.emitted) = Len(p.emitted) + 2
                     /\ q.emitted[Len(q.emitted) - 1] = StepEvent(q, "acting")
                     /\ q.emitted[Len(q.emitted)] =
                            [ev |-> IF type = "mouse" THEN "gesture-control"
                                    ELSE "command:execute",
                             step |-> q.currentStep, action |-> q.nextAction]
              /\ (p.pc = "act" /\ q # p /\ desktop) =>
                     /\ q.emitted = Append(p.emitted, StepEvent(q, "observing"))
                     /\ q.actionResult.success
                     /\ q.actionResult # NoAck
                     /\ Resolutions(type) = <<q.actionResult>>
                     /\ \E i \in DOMAIN T :
                            /\ T[i].value = q.actionResult
                            /\ T[i].delay = FixedDelay(type)
                            /\ \A j \in DOMAIN T : T[j].delay >= T[i].delay
                     /\ q.errors = p.errors]_vars

\* an app action resolved by its 1000ms handler, after one message to the
\* desktop room
C38_Witness ==
    /\ run[1].pc = "observe"
    /\ run[1].nextAction.type = "app"
    /\ run[1].actionResult = [success |-> TRUE]
    /\ Cardinality(Positions(run[1], {"command:execute"})) = 1
    /\ Positions(run[1], {"gesture-control"}) = {}
    /\ Len(run[1].steps) = 1

\* the place of an event in the order of one task
EventKind(e) ==
    IF e.ev = "task:step" THEN e.phase
    ELSE IF e.ev \in {"task:completed", "task:failed"} THEN "end"
    ELSE IF e.ev \in {"command:execute", "gesture-control"} THEN "desktop"
    ELSE e.ev

\* event b may come right after event a in what one task emits
MayFollow(a, b) ==
    LET ka == EventKind(a)
        kb == EventKind(b)
    IN  \/ ka = "task:started" /\ kb = "reasoning" /\ b.step = 1
        \/ ka = "reasoning" /\ kb = "task:confirmation_required" /\ b.step = a.step
                            /\ requiresConfirmation(b.action)
        \/ ka = "reasoning" /\ kb = "acting" /\ b.step = a.step
        \/ ka = "task:confirmation_required" /\ kb = "acting" /\ b.step = a.step
        \/ ka = "acting" /\ kb = "desktop" /\ b.step = a.step
        \/ ka \in {"acting", "desktop"} /\ kb = "observing" /\ b.step = a.step
        \/ ka = "observing" /\ kb = "reasoning" /\ b.step = a.step + 1
        \/ ka \in {"reasoning", "task:confirmation_required", "observing"} /\ kb = "end"

\* C39: event order within one task: task:started is emitted exactly once,
\* first, before any task:step; inside an iteration the events come in the
\* order task:step(reasoning), task:confirmation_required if and only if the
\* action is dangerous, task:step(acting), task:step(observing); and
\* task:completed or task:failed is the last event of the task: no task:step
\* or task:confirmation_required comes after it.
C39_EventOrder ==
    \A t \in Tasks :
        LET p == run[t]
            E == p.emitted
        IN  /\ p.pc # "idle" => Positions(p, {"task:started"}) = {1}
            /\ \A i \in 1..(Len(E) - 1) : MayFollow(E[i], E[i + 1])
            /\ Positions(p, {"task:completed", "task:failed"}) =
                   (IF p.pc = "done" THEN {Len(E)} ELSE {})
            /\ \A i \in Positions(p, {"command:execute", "gesture-control"}) :
                   requiresConfirmation(E[i].action) =>
                       E[i - 2].ev = "task:confirmation_required"
            /\ p.pc \in {"act", "observe", "sleep"} =>
                   (requiresConfirmation(p.nextAction) <=>
                       \E i \in Positions(p, {"task:confirmation_required"}) :
                           E[i].step = p.currentStep)

\* a task whose first iteration ran a confirmed dangerous action and whose
\* Reasoner answered DONE in the second
C39_Witness ==
    /\ run[1].pc = "done"
    /\ run[1].response = Done
    /\ Len(run[1].steps) = 1
    /\ run[1].steps[1].action = Shutdown
    /\ Len(run[1].emitted) = 8
    /\ run[1].emitted[3].ev = "task:confirmation_required"
    /\ run[1].emitted[8].ev = "task:completed"
    /\ ~Cancelled(run[1])

\* C40: task:failed is emitted only when an exception escapes the loop body
\* (here: requiresConfirmation throwing on the Reasoner's answer); a call that
\* ends by a rejected confirmation, a confirmation timeout or the step limit
\* emits task:completed with success = false instead; and task:completed has
\* success = true exactly when the Task's state is COMPLETED when the loop
\* exits. Every call ends with exactly one of the two events.
C40_FailedOnlyOnException ==
    [][\A t \in Tasks :
          LET p == run[t]
              q == run'[t]
              last == q.emitted[Len(q.emitted)]
              threw == p.pc = "reason" /\ ThrowsInLoop(q.response)
          IN  (p.pc # "done" /\ q.pc = "done") =>
                  /\ Len(q.emitted) = Len(p.emitted) + 1
                  /\ Positions(p, {"task:completed", "task:failed"}) = {}
                  /\ IF threw
                     THEN /\ last = [ev |-> "task:failed", error |-> TypeErrorMessage]
                          /\ q.state = FAILED
                     ELSE /\ last = [ev |-> "task:completed", result |-> q.result]
                          /\ q.result.success <=> (q.state = COMPLETED)
                  /\ p.pc = "confirm" =>
                         /\ last.ev = "task:completed"
                         /\ ~last.result.success
                         /\ q.state = FAILED
                  /\ p.pc = "sleep" =>
                         /\ last.ev = "task:completed"
                         /\ ~last.result.success
                         /\ q.state # COMPLETED
                         /\ q.currentStep = maxSteps]_vars

\* the confirmation of a dangerous action timed out or was rejected in the
\* second iteration: task:completed with success = false, no task:failed
C40_Witness ==
    /\ run[1].pc = "done"
    /\ run[1].confirmed = "false"
    /\ run[1].currentStep = 2
    /\ run[1].state = FAILED
    /\ run[1].emitted[Len(run[1].emitted)] =
           [ev |-> "task:completed",
            result |-> [success |-> FALSE, steps |-> 1, errors |-> <<"User rejected action">>]]
    /\ Positions(run[1], {"task:failed"}) = {}

====
